---- MODULE Spec2Model ----
\* A model of neurokit2/rsp/rsp_rate.py: one call of rsp_rate(), from the
\* dispatch on `method` to the returned rate series or the raised exception.
\*
\* Signals are modelled by their length (the claims are about lengths, window
\* positions and bank indices, never about sample values).  Frequencies are
\* exact integers in units of 1/1200 Hz, so that 5/60, 30.25/60, 0.25/50 and
\* 0.25/60 are all whole numbers.  The `window` argument is a rational
\* <<numerator, denominator>> in seconds, so that int(10 * window) truncates.
EXTENDS Integers, Sequences, FiniteSets

VARIABLES
    args,               \* the arguments of the call (never assigned by the code)
    pc,                 \* position in rsp_rate / _rsp_rate_xcorr
    peaks,              \* local `peaks` of rsp_rate (None, or <<indices>>)
    calls,              \* the collaborator calls made so far, in order
    error,              \* the exception that ended the call, if any
    len_rsp,            \* len(rsp): length of the downsampled signal
    window_length,      \* local window_length of _rsp_rate_xcorr
    it,                 \* position in np.arange(0, N, hop_size)
    start,              \* loop variable `start`
    len_window_segment, \* len(window_segment) of the current iteration
    tone,               \* what the current window holds (decides xcorr)
    max_frequency_idx,  \* local max_frequency_idx
    max_frequency,      \* local max_frequency
    rsp_rate,           \* the list rsp_rate built by the loop
    len_rate,           \* length of the series after signal_interpolate
    result              \* the returned series (by its length), if any

vars == <<args, pc, peaks, calls, error, len_rsp, window_length, it, start,
          len_window_segment, tone, max_frequency_idx, max_frequency,
          rsp_rate, len_rate, result>>

-----------------------------------------------------------------------------
\* Bounds of the model.

MaxLen == 4          \* len(rsp_cleaned) ranges over 0..MaxLen
MaxWindow == 6       \* window ranges up to MaxWindow/20 seconds
NegWindow == 2       \* ... and down to -NegWindow/20 seconds
MaxHop == 2          \* hop_size ranges over -1..MaxHop
MaxMask == 1         \* case variants upper-case up to MaxMask scattered letters

-----------------------------------------------------------------------------
\* Strings are sequences of one-character strings.

LowerLetters ==
    << "a","b","c","d","e","f","g","h","i","j","k","l","m",
       "n","o","p","q","r","s","t","u","v","w","x","y","z" >>

UpperLetters ==
    << "A","B","C","D","E","F","G","H","I","J","K","L","M",
       "N","O","P","Q","R","S","T","U","V","W","X","Y","Z" >>

\* str.lower() on one character: an upper-case letter becomes its lower-case
\* letter, everything else is left alone.
LowerChar(c) ==
    IF \E k \in DOMAIN UpperLetters : UpperLetters[k] = c
    THEN LowerLetters[CHOOSE k \in DOMAIN UpperLetters : UpperLetters[k] = c]
    ELSE c

\* method.lower()
Lower(s) == [k \in DOMAIN s |-> LowerChar(s[k])]

PeakNames ==
    { <<"p","e","a","k">>,
      <<"p","e","a","k","s">>,
      <<"s","i","g","n","a","l","_","r","a","t","e">> }

XcorrNames ==
    { <<"c","r","o","s","s","-","c","o","r","r","e","l","a","t","i","o","n">>,
      <<"x","c","o","r","r">> }

\* Dispatch without .lower(): only the lower-case spellings are accepted.
RouteCaseSensitive(m) ==
    IF m \in PeakNames THEN "peak"
    ELSE IF m \in XcorrNames THEN "xcorr"
    ELSE "invalid"

\* Dispatch without the final else: an unknown name falls into the first branch.
RouteNoElse(m) ==
    IF Lower(m) \in XcorrNames THEN "xcorr" ELSE "peak"

\* The two-way dispatch of rsp_rate (the if / elif / else on method.lower()).
Route(m) ==
    IF Lower(m) \in PeakNames THEN "peak"
    ELSE IF Lower(m) \in XcorrNames THEN "xcorr"
    ELSE "invalid"

\* `peaks is None`
None == << >>
Some(p) == << p >>
\* `if not peaks`: an empty peak list counts as missing too.
PeaksIsFalsy(p) == p = None \/ p = Some(<< >>)

PeaksIsNone(p) == p = None

-----------------------------------------------------------------------------
\* Arithmetic of the cross-correlation tracker.

Abs(x) == IF x < 0 THEN -x ELSE x
Max2(a, b) == IF a > b THEN a ELSE b
Min2(a, b) == IF a < b THEN a ELSE b

\* Ceiling and floor of num/den for den > 0.
FloorDiv(num, den) == num \div den
CeilDiv(num, den) == -((-num) \div den)

\* int(x) for x = num/den, den > 0: truncation toward zero.
IntTrunc(num, den) == IF num >= 0 THEN num \div den ELSE -((-num) \div den)

\* desired_sampling_rate = 10
desired_sampling_rate == 10

\* window_length = int(desired_sampling_rate * window), window = w[1]/w[2] s.
WindowLength(w) == IntTrunc(desired_sampling_rate * w[1], w[2])

\* x_new = len(rsp): the length of the downsampled signal is asked for.
XNewDownsampled(len_cleaned, len_down) == len_down

\* x_new = len(rsp_cleaned): the length asked of signal_interpolate.
XNew(len_cleaned, len_down) == len_cleaned

\* desired_length = len(rsp_cleaned): the length asked of signal_rate.
DesiredLength(len_cleaned) == len_cleaned

\* len(np.arange(0, stop, step)) for stop >= 0 and step # 0: ceil(stop / step),
\* at least 0, which is 0 for every negative step.
ArangeLen(stop, step) ==
    IF step > 0 THEN Max2(0, CeilDiv(stop, step)) ELSE 0

\* len(a[lo:hi]) for a Python sequence of length n and lo >= 0: a negative hi
\* counts from the end, and both ends are clipped to the sequence.
SliceLen(n, lo, hi) ==
    LET l == Min2(lo, n)
        h == IF hi < 0 THEN Max2(0, hi + n) ELSE Min2(hi, n)
    IN  Max2(0, h - l)

\* len(np.ediff1d(a)) for len(a) = n.
EdiffLen(n) == Max2(0, n - 1)

\* A frequency (n100 / 100) / den in Hz, in units of 1/1200 Hz.
Hz(n100, den) == (n100 * 1200) \div (100 * den)

\* np.arange(first, stop, step) as a sequence (1-based here, 0-based in numpy).
Arange(first, stop, step) ==
    [k \in 1..Max2(0, CeilDiv(stop - first, step)) |-> first + (k - 1) * step]

\* The bank with a step of 0.25/100: twice as many candidates as looked up.
SynthBankFine == Arange(Hz(500, 60), Hz(3025, 60), Hz(25, 100))

\* np.arange(5/60, 30.25/60, 0.25/50): the frequencies of the sine waves.
SynthBank == Arange(Hz(500, 60), Hz(3025, 60), Hz(25, 50))

\* np.arange(5/60, 30.25/60, 0.25/60): the bank the winning index is read from.
LookupBank == Arange(Hz(500, 60), Hz(3025, 60), Hz(25, 60))

\* What a window holds, as far as the correlation scan can tell: a segment
\* whose difference is constant (every coefficient is nan), or an oscillation
\* of dominant frequency f (the nearer a candidate, the higher it correlates).
Flat == [flat |-> TRUE, f |-> 0]
Tone(f) == [flat |-> FALSE, f |-> f]

DominantFrequencies == { Hz(500, 60), Hz(515, 60), Hz(1550, 60), Hz(3020, 60) }

\* The windows a difference of length n can come from: with a single
\* difference np.corrcoef has no variance to work with and yields nan.
Tones(n) ==
    IF n <= 1 THEN { Flat } ELSE { Flat } \cup { Tone(f) : f \in DominantFrequencies }

\* np.corrcoef(norm_diff, sin_wave)[0, 1] for one candidate frequency.
Corr(t, frequency) ==
    [nan |-> t.flat, v |-> IF t.flat THEN 0 ELSE 0 - Abs(frequency - t.f)]

\* The list xcorr: one coefficient per frequency of the synthesis bank.
Xcorr(t) == [k \in DOMAIN SynthBank |-> Corr(t, SynthBank[k])]

\* np.argmax (0-based): the first nan if there is one, else the first maximum.
ArgMax(xs) ==
    LET nans == { k \in DOMAIN xs : xs[k].nan }
        tops == { k \in DOMAIN xs : \A j \in DOMAIN xs : xs[j].v <= xs[k].v }
        pick == IF nans # {} THEN nans ELSE tops
    IN  (CHOOSE k \in pick : \A j \in pick : k <= j) - 1

\* signal_resample to 10 Hz keeps the timing: the length scales by 10/rate,
\* rounded either way.
ResampledLengths(n, rate) ==
    { FloorDiv(n * desired_sampling_rate, rate),
      CeilDiv(n * desired_sampling_rate, rate) }

-----------------------------------------------------------------------------
\* The arguments a call is made with.

Subsets(S, n) == { m \in SUBSET S : Cardinality(m) <= n }

UpperChar(c) ==
    IF \E k \in DOMAIN LowerLetters : LowerLetters[k] = c
    THEN UpperLetters[CHOOSE k \in DOMAIN LowerLetters : LowerLetters[k] = c]
    ELSE c

\* The spellings of name s with the letters at the positions in m upper-cased,
\* m ranging over the small sets of positions and over all of them.
CaseVariants(s) ==
    { [k \in DOMAIN s |-> IF k \in m THEN UpperChar(s[k]) ELSE s[k]] :
        m \in Subsets(DOMAIN s, MaxMask) \cup { DOMAIN s } }

UnknownMethods ==
    { << >>,
      <<"b","o","g","u","s">>,
      <<"B","o","g","u","s">>,
      <<"p","e","a","k"," ">>,
      <<"p","e","a","k","s","s">>,
      <<"x","c","o","r">>,
      <<"x","-","c","o","r","r">>,
      <<"s","i","g","n","a","l","-","r","a","t","e">>,
      <<"c","r","o","s","s","_","c","o","r","r","e","l","a","t","i","o","n">>,
      <<"c","r","o","s","s","c","o","r","r","e","l","a","t","i","o","n">> }

AllMethods ==
    UNION { CaseVariants(s) : s \in PeakNames \cup XcorrNames } \cup UnknownMethods

PlainMethods ==
    { <<"p","e","a","k">>, <<"x","c","o","r","r">>, <<"b","o","g","u","s">> }

PeakMethods == { "khodadad2018", "biosppy" }

\* Peak sets: strictly increasing indices into a signal of length n.
CandidatePeaks == { << >>, <<0, 2>>, <<1>>, <<1, 3>> }
PeakSets(n) == { p \in CandidatePeaks : \A k \in DOMAIN p : p[k] < n }

SamplingRates == { 5, 10, 20 }

Windows == { <<n, 20>> : n \in (0 - NegWindow)..MaxWindow }

HopSizes == (0 - 1)..MaxHop

\* The caller passes no peaks, or a peak set of the signal.
PeaksFit(p, n) == IF p = None THEN TRUE ELSE p[1] \in PeakSets(n)

Args(methods, lens, rates, windows, hops) ==
  { a \in
    { [len_rsp_cleaned |-> n, peaks |-> p, sampling_rate |-> r, window |-> w,
       hop_size |-> h, method |-> m, peak_method |-> pm] :
        n \in lens, r \in rates, w \in windows, h \in hops, m \in methods,
        pm \in PeakMethods,
        p \in { None } \cup { Some(q) : q \in CandidatePeaks } } :
    PeaksFit(a.peaks, a.len_rsp_cleaned) }

NoError == [type |-> "none", line |-> 0]
NoResult == [returned |-> FALSE, len |-> 0]

InitWith(a) ==
    /\ args = a
    /\ pc = "rsp_rate"
    /\ peaks = a.peaks
    /\ calls = << >>
    /\ error = NoError
    /\ len_rsp = 0
    /\ window_length = 0
    /\ it = 0
    /\ start = 0
    /\ len_window_segment = 0
    /\ tone = Flat
    /\ max_frequency_idx = 0
    /\ max_frequency = 0
    /\ rsp_rate = << >>
    /\ len_rate = 0
    /\ result = NoResult

Init ==
    \E a \in Args(PlainMethods, 0..MaxLen, SamplingRates, Windows, HopSizes) :
        InitWith(a)

InitDispatch ==
    \E a \in Args(AllMethods, {2}, {5, 10}, { <<0, 20>>, <<4, 20>> }, {0, 1}) :
        InitWith(a)

-----------------------------------------------------------------------------
\* rsp_rate

Raise(type, line) ==
    /\ pc' = "raised"
    /\ error' = [type |-> type, line |-> line]

Outcomes == { "returns", "raises" }

\* Lines 45-58: the dispatch on method.lower().
Dispatch ==
    /\ pc = "rsp_rate"
    /\ CASE Route(args.method) = "peak" ->
              /\ pc' = IF PeaksIsNone(peaks) THEN "rsp_peaks" ELSE "signal_rate"
              /\ error' = error
         [] Route(args.method) = "xcorr" ->
              /\ pc' = "xcorr"
              /\ error' = error
         [] OTHER -> Raise("ValueError", 55)
    /\ UNCHANGED <<args, peaks, calls, len_rsp, window_length, it, start,
                   len_window_segment, tone, max_frequency_idx, max_frequency,
                   rsp_rate, len_rate, result>>

\* Line 47: peaks, info = rsp_peaks(rsp_cleaned, sampling_rate, method=peak_method)
CallRspPeaks ==
    /\ pc = "rsp_peaks"
    /\ calls' = Append(calls, [fn |-> "rsp_peaks",
                               len_signal |-> args.len_rsp_cleaned,
                               sampling_rate |-> args.sampling_rate,
                               method |-> args.peak_method])
    /\ \E o \in Outcomes :
         IF o = "raises"
         THEN /\ Raise("CollaboratorError", 47)
              /\ peaks' = peaks
         ELSE /\ \E p \in PeakSets(args.len_rsp_cleaned) : peaks' = Some(p)
              /\ pc' = "signal_rate"
              /\ error' = error
    /\ UNCHANGED <<args, len_rsp, window_length, it, start,
                   len_window_segment, tone, max_frequency_idx, max_frequency,
                   rsp_rate, len_rate, result>>

\* Lines 48 and 60: rsp_rate = signal_rate(peaks, ..., desired_length=len(rsp_cleaned)),
\* which returns a series of the desired length, and the return of it.
CallSignalRate ==
    /\ pc = "signal_rate"
    /\ LET n == DesiredLength(args.len_rsp_cleaned) IN
         /\ calls' = Append(calls, [fn |-> "signal_rate",
                                    peaks |-> peaks[1],
                                    sampling_rate |-> args.sampling_rate,
                                    desired_length |-> n])
         /\ \E o \in Outcomes :
              IF o = "raises"
              THEN /\ Raise("CollaboratorError", 48)
                   /\ result' = result
              ELSE /\ result' = [returned |-> TRUE, len |-> n]
                   /\ pc' = "done"
                   /\ error' = error
    /\ UNCHANGED <<args, peaks, len_rsp, window_length, it, start,
                   len_window_segment, tone, max_frequency_idx, max_frequency,
                   rsp_rate, len_rate>>

-----------------------------------------------------------------------------
\* _rsp_rate_xcorr

\* Lines 71-79: N, the downsampling to 10 Hz, window_length and the empty list.
XcorrResample ==
    /\ pc = "xcorr"
    /\ calls' = Append(calls, [fn |-> "signal_resample",
                               len_signal |-> args.len_rsp_cleaned,
                               sampling_rate |-> args.sampling_rate,
                               desired_sampling_rate |-> desired_sampling_rate])
    /\ \E o \in Outcomes :
         IF o = "raises"
         THEN /\ Raise("CollaboratorError", 74)
              /\ UNCHANGED <<len_rsp, window_length>>
         ELSE /\ len_rsp' \in ResampledLengths(args.len_rsp_cleaned, args.sampling_rate)
              /\ window_length' = WindowLength(args.window)
              /\ pc' = "loop"
              /\ error' = error
    /\ rsp_rate' = << >>
    /\ it' = 0
    /\ UNCHANGED <<args, peaks, start, len_window_segment, tone,
                   max_frequency_idx, max_frequency, len_rate, result>>

\* The starts of the loop: np.arange(0, N, hop_size), N = len(rsp_cleaned).
Starts == ArangeLen(args.len_rsp_cleaned, args.hop_size)

\* len(rsp[start: start + window_length]) at the start the loop is at.
SegmentLen == SliceLen(len_rsp, it * args.hop_size,
                       it * args.hop_size + window_length)

\* Line 80 with hop_size = 0: np.arange refuses a zero step.
LoopZeroStep ==
    /\ pc = "loop"
    /\ args.hop_size = 0
    /\ Raise("ZeroDivisionError", 80)
    /\ UNCHANGED <<args, peaks, calls, len_rsp, window_length, it, start,
                   len_window_segment, tone, max_frequency_idx, max_frequency,
                   rsp_rate, len_rate, result>>

\* Line 80: the range is used up and the loop ends.
LoopExhausted ==
    /\ pc = "loop"
    /\ args.hop_size # 0
    /\ it >= Starts
    /\ pc' = "interpolate"
    /\ UNCHANGED <<args, peaks, calls, error, len_rsp, window_length, it, start,
                   len_window_segment, tone, max_frequency_idx, max_frequency,
                   rsp_rate, len_rate, result>>

\* Lines 80-83: the segment is shorter than window_length and the loop breaks.
LoopBreak ==
    /\ pc = "loop"
    /\ args.hop_size # 0
    /\ it < Starts
    /\ SegmentLen < window_length
    /\ start' = it * args.hop_size
    /\ len_window_segment' = SegmentLen
    /\ pc' = "interpolate"
    /\ UNCHANGED <<args, peaks, calls, error, len_rsp, window_length, it, tone,
                   max_frequency_idx, max_frequency, rsp_rate, len_rate, result>>

\* Lines 80-86: the segment is accepted but has no difference to take the
\* maximum of, and np.max raises.
WindowNoDiff ==
    /\ pc = "loop"
    /\ args.hop_size # 0
    /\ it < Starts
    /\ SegmentLen >= window_length
    /\ EdiffLen(SegmentLen) = 0
    /\ start' = it * args.hop_size
    /\ len_window_segment' = SegmentLen
    /\ Raise("ValueError", 86)
    /\ UNCHANGED <<args, peaks, calls, len_rsp, window_length, it, tone,
                   max_frequency_idx, max_frequency, rsp_rate, len_rate, result>>

\* Lines 80-101: the segment is accepted, every frequency of the synthesis
\* bank is scored, and the winner's index is looked up in the other bank.
WindowEstimate ==
    /\ pc = "loop"
    /\ args.hop_size # 0
    /\ it < Starts
    /\ SegmentLen >= window_length
    /\ EdiffLen(SegmentLen) > 0
    /\ start' = it * args.hop_size
    /\ len_window_segment' = SegmentLen
    /\ \E t \in Tones(EdiffLen(SegmentLen)) :
         LET idx == ArgMax(Xcorr(t)) IN
           /\ tone' = t
           /\ max_frequency_idx' = idx
           /\ IF idx + 1 \in DOMAIN LookupBank
              THEN /\ max_frequency' = LookupBank[idx + 1]
                   /\ rsp_rate' = Append(rsp_rate, LookupBank[idx + 1])
                   /\ it' = it + 1
                   /\ UNCHANGED <<pc, error>>
              ELSE /\ Raise("IndexError", 99)
                   /\ UNCHANGED <<max_frequency, rsp_rate, it>>
    /\ UNCHANGED <<args, peaks, calls, len_rsp, window_length, len_rate, result>>

\* Lines 103-105: signal_interpolate(x, y, x_new=len(rsp_cleaned)), which
\* returns a series of the length asked for, or fails.  Over an empty
\* trajectory its outcome is not defined: either of the two.
Interpolate ==
    /\ pc = "interpolate"
    /\ LET n == XNew(args.len_rsp_cleaned, len_rsp) IN
         /\ calls' = Append(calls, [fn |-> "signal_interpolate",
                                    len_x |-> Len(rsp_rate),
                                    len_y |-> Len(rsp_rate),
                                    x_new |-> n])
         /\ \E o \in Outcomes :
              IF o = "raises"
              THEN /\ Raise("CollaboratorError", 105)
                   /\ len_rate' = len_rate
              ELSE /\ len_rate' = n
                   /\ pc' = "filter"
                   /\ error' = error
    /\ UNCHANGED <<args, peaks, len_rsp, window_length, it, start,
                   len_window_segment, tone, max_frequency_idx, max_frequency,
                   rsp_rate, result>>

\* Lines 107-112 and 60: signal_filter keeps the length, as do the
\* multiplication by 60 and np.array; the series is returned.
FilterAndReturn ==
    /\ pc = "filter"
    /\ calls' = Append(calls, [fn |-> "signal_filter",
                               len_signal |-> len_rate,
                               sampling_rate |-> args.sampling_rate])
    /\ \E o \in Outcomes :
         IF o = "raises"
         THEN /\ Raise("CollaboratorError", 107)
              /\ result' = result
         ELSE /\ result' = [returned |-> TRUE, len |-> len_rate]
              /\ pc' = "done"
              /\ error' = error
    /\ UNCHANGED <<args, peaks, len_rsp, window_length, it, start,
                   len_window_segment, tone, max_frequency_idx, max_frequency,
                   rsp_rate, len_rate>>

-----------------------------------------------------------------------------

Next ==
    \/ Dispatch
    \/ CallRspPeaks
    \/ CallSignalRate
    \/ XcorrResample
    \/ LoopZeroStep
    \/ LoopExhausted
    \/ LoopBreak
    \/ WindowNoDiff
    \/ WindowEstimate
    \/ Interpolate
    \/ FilterAndReturn

\* Calls over the whole range of signal lengths, rates, windows and hops.
Spec == Init /\ [][Next]_vars

\* Calls over every spelling of the method name.
SpecDispatch == InitDispatch /\ [][Next]_vars

-----------------------------------------------------------------------------
\* What the claims speak of.

Range(f) == { f[k] : k \in DOMAIN f }

CallsOf(fns) == { k \in DOMAIN calls : calls[k].fn \in fns }

\* The call went down the peak-based path / the cross-correlation path.
OnPeakPath ==
    \/ pc \in { "rsp_peaks", "signal_rate" }
    \/ CallsOf({ "rsp_peaks", "signal_rate" }) # {}

OnXcorrPath ==
    \/ pc \in { "xcorr", "loop", "interpolate", "filter" }
    \/ CallsOf({ "signal_resample", "signal_interpolate", "signal_filter" }) # {}

\* m spells the name s, letter by letter, in whatever case.
Spells(m, s) ==
    /\ Len(m) = Len(s)
    /\ \A k \in DOMAIN s : m[k] = s[k] \/ m[k] = UpperChar(s[k])

\* The downsampled signal and window_length exist: the loop is reached or over.
Resampled == OnXcorrPath /\ pc # "xcorr" /\ error.line # 74

\* The loop ended without an exception.
LoopDone ==
    /\ Resampled
    /\ \/ pc \in { "interpolate", "filter", "done" }
       \/ pc = "raised" /\ error.line \in { 105, 107 }

\* The last thing the loop did was to accept a window.
WindowAccepted ==
    \/ pc = "loop" /\ Len(rsp_rate) > 0
    \/ pc = "raised" /\ error.line \in { 86, 99 }

\* C1: a call that returns, by either method, returns a series of exactly
\* len(rsp_cleaned) entries, whatever the sampling rate, window and hop size.
C1_OutputLength ==
    result.returned => result.len = args.len_rsp_cleaned

\* A cross-correlation call that returned after several windows taken with a
\* hop of 2 from a downsampled signal longer than the original.
C1_Witness ==
    /\ pc = "done"
    /\ result.returned
    /\ OnXcorrPath
    /\ args.hop_size = 2
    /\ Len(rsp_rate) >= 2
    /\ len_rsp > args.len_rsp_cleaned
    /\ args.len_rsp_cleaned > 0

\* C2: a method whose lower-cased form is not an accepted name ends the call
\* with the ValueError of line 55, with nothing returned and no collaborator
\* called.
C2_InvalidMethod ==
    (Lower(args.method) \notin PeakNames \cup XcorrNames /\ pc # "rsp_rate")
        => /\ pc = "raised"
           /\ error = [type |-> "ValueError", line |-> 55]
           /\ ~result.returned
           /\ calls = << >>

\* The call with method "Bogus" has raised.
C2_Witness ==
    /\ args.method = <<"B","o","g","u","s">>
    /\ pc = "raised"

\* C3: every case variant of peak, peaks or signal_rate goes down the
\* peak-based path and never the cross-correlation one, and every case variant
\* of cross-correlation or xcorr the other way round.
C3_Dispatch ==
    pc # "rsp_rate" =>
        /\ (\E s \in PeakNames : Spells(args.method, s))
               => OnPeakPath /\ ~OnXcorrPath
        /\ (\E s \in XcorrNames : Spells(args.method, s))
               => OnXcorrPath /\ ~OnPeakPath

\* The call with method "CROSS-CORRELATION" has reached the filter.
C3_Witness ==
    /\ args.method =
         <<"C","R","O","S","S","-","C","O","R","R","E","L","A","T","I","O","N">>
    /\ pc = "filter"
    /\ calls[1].fn = "signal_resample"

\* C4 (as claimed): when a non-empty signal, downsampled, is shorter than one
\* window (the stride being at least 1), the interpolator is never handed an
\* empty trajectory, nothing is returned, and the call ends in InsufficientData.
C4_ShortSignalRaises ==
    (Resampled /\ args.hop_size >= 1 /\ args.len_rsp_cleaned >= 1
               /\ len_rsp < window_length)
        => /\ \A k \in CallsOf({ "signal_interpolate" }) : calls[k].len_x > 0
           /\ ~result.returned
           /\ pc \in { "done", "raised" } => error.type = "InsufficientData"

\* C5 (as claimed): for a hop H >= 1, a window of at least one sample and a
\* downsampled signal no shorter than the window, the loop ends with
\* floor((len(rsp) - window_length) / H) + 1 estimates.
C5_WindowCount ==
    (LoopDone /\ args.hop_size >= 1 /\ window_length >= 1
              /\ len_rsp >= window_length)
        => Len(rsp_rate) = (len_rsp - window_length) \div args.hop_size + 1

\* C6: the peak detector is called exactly once, with the caller's sampling
\* rate and peak_method, when no peaks are passed; never when peaks are passed,
\* which then go unchanged to signal_rate; never on the cross-correlation path.
C6_PeakDetector ==
    LET detector == CallsOf({ "rsp_peaks" }) IN
      /\ OnXcorrPath => detector = {}
      /\ args.peaks # None =>
           /\ detector = {}
           /\ \A k \in CallsOf({ "signal_rate" }) : calls[k].peaks = args.peaks[1]
      /\ (args.peaks = None /\ pc \in { "signal_rate", "done", "raised" }
                            /\ Route(args.method) = "peak") =>
           /\ Cardinality(detector) = 1
           /\ \A k \in detector :
                /\ calls[k].sampling_rate = args.sampling_rate
                /\ calls[k].method = args.peak_method
           /\ \A k \in CallsOf({ "signal_rate" }) : calls[k].peaks = peaks[1]

\* A peak-based call without peaks has returned, the detector having been
\* asked for the biosppy variant.
C6_Witness ==
    /\ pc = "done"
    /\ args.peaks = None
    /\ args.peak_method = "biosppy"
    /\ Len(calls) = 2
    /\ calls[1].fn = "rsp_peaks"
    /\ calls[2].peaks = <<1, 3>>

\* C7 (as claimed): whenever the tracker is at or past its loop, window_length
\* and the stride hop_size are positive; stated here for the calls whose window
\* duration and hop size are not negative, which already break it.
C7_PositiveWindowAndStride ==
    (Resampled /\ args.window[1] >= 0 /\ args.hop_size >= 0)
        => window_length > 0 /\ args.hop_size > 0

\* C8 (as claimed): the estimate appended for a window (of a positive
\* window_length) is the frequency of the sine wave that won, and the winner is
\* the lowest index among the maxima.
C8_WinningFrequency ==
    (pc = "loop" /\ Len(rsp_rate) > 0 /\ window_length >= 1) =>
        /\ rsp_rate[Len(rsp_rate)] = SynthBank[max_frequency_idx + 1]
        /\ ~tone.flat =>
             LET xcorr == Xcorr(tone) IN
               /\ \A j \in DOMAIN xcorr : xcorr[j].v <= xcorr[max_frequency_idx + 1].v
               /\ \A j \in 1..max_frequency_idx :
                    xcorr[j].v < xcorr[max_frequency_idx + 1].v

\* C9 (as claimed): an accepted window is a slice of exactly window_length
\* samples inside the downsampled signal; the k-th estimate is that of the
\* window at (k - 1) * hop_size (k counted from 1); and the loop ends with one
\* estimate per start before the first short window.
C9_Windows ==
    /\ WindowAccepted =>
         /\ len_window_segment = window_length
         /\ start >= 0
         /\ start + window_length <= len_rsp
    /\ (pc = "loop" /\ Len(rsp_rate) > 0) =>
         /\ start = (Len(rsp_rate) - 1) * args.hop_size
         /\ rsp_rate[Len(rsp_rate)] = max_frequency
         /\ it = Len(rsp_rate)
    /\ LoopDone =>
         /\ Len(rsp_rate) = it
         /\ \/ it >= Starts
            \/ SegmentLen < window_length

\* C10: the winning index is a valid index into the lookup bank, no lookup
\* fails, and every estimate is a member of the lookup bank between 5 and 26
\* cycles per minute, below the bank's last entry of 30.
C10_LookupInRange ==
    /\ error.line # 99
    /\ WindowAccepted /\ error.line # 86 =>
         /\ max_frequency_idx \in 0..(Len(LookupBank) - 1)
         /\ max_frequency_idx \in 0..(Len(SynthBank) - 1)
    /\ \A k \in DOMAIN rsp_rate :
         /\ rsp_rate[k] \in Range(LookupBank)
         /\ rsp_rate[k] >= Hz(500, 60)
         /\ rsp_rate[k] <= Hz(2600, 60)
         /\ rsp_rate[k] < LookupBank[Len(LookupBank)]
    /\ LookupBank[Len(LookupBank)] = Hz(3000, 60)

\* The last candidate of the synthesis bank has won a window: index 84,
\* recorded as 26 cycles per minute.
C10_Witness ==
    /\ pc = "loop"
    /\ Len(rsp_rate) > 0
    /\ max_frequency_idx = Len(SynthBank) - 1
    /\ rsp_rate[Len(rsp_rate)] = Hz(2600, 60)

====
